---- MODULE Spec2Model ----
(***************************************************************************)
(* A state-machine model of klee's MemoryManager                            *)
(* (lib/Core/MemoryManager.cpp): the deterministic arena, the native        *)
(* delegation to malloc / mmap / posix_memalign, the registry `objects`,    *)
(* the segment counter and the release of backing storage.                  *)
(*                                                                          *)
(* Machine words are scaled down: uint64_t is an integer modulo Word,       *)
(* `unsigned` and a 32-bit pointer width are integers modulo UnsignedMod.   *)
(***************************************************************************)
EXTENDS Integers, Sequences, FiniteSets, TLC

\* ---------------------------------------------------------------- bounds
WordBits == 16
UnsignedBits == 8
MaxSegments == 2
SmallSize == 5
FixedBase == 128
FixedLen == 8

Word == 2 ^ WordBits
UnsignedMod == 2 ^ UnsignedBits

\* ------------------------------------------------- program and host constants
\* `alignment <= 8` selects malloc over posix_memalign
MallocAlignmentLimit == 8
\* default of -red-zone-space
DefaultRedZoneSpace == 10
\* alignment of the addresses malloc returns
MallocAlign == 16
\* granularity of the addresses mmap returns
PageSize == 16
\* 1024 * 1024, scaled
MegaByte == 16
\* page-aligned -allocate-determ-start-address, scaled
DeterministicStartAddress == 4096
\* -allocate-determ-size, scaled
DeterministicAllocationSize == 4

\* opt                the cl::opt flags, the pointer width and the build
\* deterministicSpace, spaceSize, nextFreeSlot   the arena: origin, size, cursor
\* lastSegment, objects, allocations   identity counter, registry, stats counter
\* heap               the live blocks of the host (malloc, mmap, posix_memalign)
\* freedObjs          records handed back through markFreed, still held by callers
\* released           every munmap / free call made for a record
\* arenaReleased      munmap(deterministicSpace, spaceSize) was made
\* issued, carved     history: identities issued, regions carved from the arena
\* created            history: every record a call has returned (its identity
\*                    and where its storage came from)
\* refSlot            the cursor of a run that makes the same allocate requests
\*                    and no other call
\* last               the last call and what it returned
\* pc                 "running", "destroying", "done", or "fatal" after klee_error
VARIABLES opt, deterministicSpace, spaceSize, nextFreeSlot, lastSegment,
          objects, allocations, heap, freedObjs, released, arenaReleased,
          issued, carved, created, refSlot, last, pc

vars == <<opt, deterministicSpace, spaceSize, nextFreeSlot, lastSegment,
          objects, allocations, heap, freedObjs, released, arenaReleased,
          issued, carved, created, refSlot, last, pc>>

Max(a, b) == IF a >= b THEN a ELSE b

\* ------------------------------------------------------------ size descriptors
\* ref<Expr> size: a ConstantExpr carrying a value, or a symbolic expression
ConstantExpr(v) == [isConst |-> TRUE, value |-> v]
SymbolicExpr == [isConst |-> FALSE, value |-> 0]

\* Context::get().getPointerWidth(): the width of the size expressions
PointerMod == IF opt.pointerBitWidth = 32 THEN UnsignedMod ELSE Word

\* llvm::isPowerOf2_64
isPowerOf2_64(v) == \E k \in 0..(WordBits - 1) : v = 2 ^ k

\* mutant: the address is not rounded to the alignment
alignTo_unrounded(v, a) == v

\* llvm::alignTo / llvm::RoundUpToAlignment on uint64_t
alignTo(v, a) == (((v + a - 1) % Word) \div a) * a

\* MemoryObject(++lastSegment, address, size, ..., isFixed, ...); `backing`
\* records which facility produced the address
MemoryObject(seg, addr, size, fixed, from) ==
  [segment |-> seg, address |-> addr, size |-> size, isFixed |-> fixed,
   backing |-> from]

\* which record it is and where its storage came from
identity(mo) ==
  [segment |-> mo.segment, isFixed |-> mo.isFixed, backing |-> mo.backing]

\* a record the manager never created
ForeignObject == MemoryObject(0, FixedBase, ConstantExpr(1), FALSE, "foreign")

\* what a call left behind for the observer
NoCall == [op |-> "none", result |-> 0, address |-> 0, size |-> SymbolicExpr,
           alignment |-> 0, tracked |-> FALSE, reference |-> 0]

InDestructor == [NoCall EXCEPT !.op = "~MemoryManager"]

\* ----------------------------------------------------------------- constructor
\* the options are fixed at construction; the build is one with assertions
\* (NDEBUG undefined), the build whose allocateFixed scans for overlaps.
\* PointerWrap is what the build makes of the overflowing pointer sum
\* (char *)address + alloc_size: the wrapped sum, or a sum out of range; it
\* matters only where a 64-bit size is carved from the arena
Init ==
  /\ opt \in [DeterministicAllocation : BOOLEAN,
              NullOnZeroMalloc : BOOLEAN,
              RedZoneSpace : {DefaultRedZoneSpace},
              pointerBitWidth : {32, 64},
              NDEBUG : {FALSE},
              PointerWrap : BOOLEAN]
  /\ opt.PointerWrap \/ (opt.DeterministicAllocation /\ opt.pointerBitWidth = 64)
  /\ spaceSize = (DeterministicAllocationSize * MegaByte) % UnsignedMod
  /\ deterministicSpace =
       IF opt.DeterministicAllocation THEN DeterministicStartAddress ELSE 0
  /\ nextFreeSlot = deterministicSpace
  /\ lastSegment = 0
  /\ objects = {}
  /\ allocations = 0
  /\ heap = {}
  /\ freedObjs = {}
  /\ released = {}
  /\ arenaReleased = FALSE
  /\ issued = <<>>
  /\ carved = <<>>
  /\ created = {}
  /\ refSlot = deterministicSpace
  /\ last = NoCall
  /\ pc = "running"

\* ------------------------------------------------------------------- the host
\* the addresses the host allocator and the low mapping facility hand out
HostLimit == 4 * PageSize
HostAddrs == {a \in 1..(HostLimit - 1) : a % MallocAlign = 0}

\* [a, a + len) is inside the host range and meets no live host block
HostFree(a, len) ==
  /\ a + len <= HostLimit
  /\ \A b \in heap : a + len <= b.address \/ b.address + b.len <= a

\* malloc(size): NULL, or a block of max(size, 1) bytes
malloc(size) ==
  {[address |-> 0, heap |-> heap, backing |-> "none"]} \cup
  {[address |-> a,
    heap |-> heap \cup {[address |-> a, len |-> Max(size, 1), kind |-> "malloc"]},
    backing |-> "malloc"] : a \in {x \in HostAddrs : HostFree(x, Max(size, 1))}}

\* mmap(0, size, ..., MAP_32BIT, ...): MAP_FAILED (also for size 0), or whole pages
mmap(size) ==
  LET len == ((size + PageSize - 1) \div PageSize) * PageSize
  IN {[address |-> 0, heap |-> heap, backing |-> "none"]} \cup
     {[address |-> a,
       heap |-> heap \cup {[address |-> a, len |-> len, kind |-> "mmap"]},
       backing |-> "mmap"] :
         a \in {x \in HostAddrs : size > 0 /\ x % PageSize = 0 /\ HostFree(x, len)}}

\* posix_memalign(&address, alignment, size): address is left 0 on failure
posix_memalign(alignment, size) ==
  {[address |-> 0, heap |-> heap, backing |-> "none"]} \cup
  {[address |-> a,
    heap |-> heap \cup {[address |-> a, len |-> Max(size, 1),
                         kind |-> "posix_memalign"]},
    backing |-> "posix_memalign"] :
      a \in {x \in HostAddrs : x % alignment = 0 /\ HostFree(x, Max(size, 1))}}

\* allocate_memory(size, low_address)
allocate_memory(size, low_address) ==
  IF low_address THEN mmap(size) ELSE malloc(size)

\* ------------------------------------------------------------------- allocate
\* the deterministic branch: the address computed and the cursor left behind.
\* (char *)address + alloc_size overflows the pointer for huge sizes: the
\* comparison then sees the wrapped sum, or the build treats it as out of range.
\* `slot` is the cursor the branch reads.
carve(slot, concreteSize, alignment) ==
  LET address == alignTo((slot + alignment - 1) % Word, alignment)
      alloc_size == Max(concreteSize, 1)
      end == address + alloc_size
      served == /\ end < Word \/ opt.PointerWrap
                /\ (end % Word) < deterministicSpace + spaceSize
  IN {IF served
        THEN [address |-> address,
              nextFreeSlot |-> (end + opt.RedZoneSpace) % Word,
              carve |-> <<[address |-> address, alloc_size |-> alloc_size]>>,
              heap |-> heap, backing |-> "arena"]
        ELSE [address |-> 0, nextFreeSlot |-> slot, carve |-> <<>>,
              heap |-> heap, backing |-> "none"]}

\* mutant: the arena is reused from its origin once no record is live
allocateDeterministic_reuse(concreteSize, alignment) ==
  carve(IF objects = {} THEN deterministicSpace ELSE nextFreeSlot,
        concreteSize, alignment)

\* the branch as allocate runs it: the cursor is nextFreeSlot
allocateDeterministic(concreteSize, alignment) ==
  carve(nextFreeSlot, concreteSize, alignment)

\* the native branch: malloc or the low mapping, else posix_memalign
allocateNative(hasConcreteSize, concreteSize, alignment) ==
  LET alloc_size == IF hasConcreteSize THEN concreteSize ELSE 1
      got == IF alignment <= MallocAlignmentLimit \/ opt.pointerBitWidth = 32
               THEN allocate_memory(alloc_size, opt.pointerBitWidth = 32)
               ELSE posix_memalign(alignment, alloc_size)
  IN {[address |-> g.address, nextFreeSlot |-> nextFreeSlot, carve |-> <<>>,
       heap |-> g.heap, backing |-> g.backing] : g \in got}

\* the outcomes of allocate(ref<Expr> size, ..., alignment) before the record
\* is built: the address obtained (0 for none), the cursor and the host heap
allocateOutcomes(size, alignment) ==
  LET hasConcreteSize == size.isConst
      concreteSize == IF size.isConst THEN size.value ELSE 0
      refused == {[address |-> 0, nextFreeSlot |-> nextFreeSlot, carve |-> <<>>,
                   heap |-> heap, backing |-> "none"]}
  IN IF opt.NullOnZeroMalloc /\ hasConcreteSize /\ concreteSize = 0 THEN refused
     ELSE IF ~isPowerOf2_64(alignment) THEN refused
     ELSE IF opt.DeterministicAllocation
       THEN allocateDeterministic(concreteSize, alignment)
       ELSE allocateNative(hasConcreteSize, concreteSize, alignment)

\* the same request in the run that makes only the allocate requests: its
\* cursor afterwards and the address it answers (0 for no record)
referenceRun(size, alignment) ==
  LET concreteSize == IF size.isConst THEN size.value ELSE 0
      refused == \/ opt.NullOnZeroMalloc /\ size.isConst /\ concreteSize = 0
                 \/ ~isPowerOf2_64(alignment)
      o == CHOOSE x \in carve(refSlot, concreteSize, alignment) : TRUE
  IN IF ~opt.DeterministicAllocation \/ refused
       THEN [slot |-> refSlot, address |-> 0]
       ELSE [slot |-> o.nextFreeSlot, address |-> o.address]

\* mutant: the null address is not caught
isNull_never(address) == FALSE

\* `if (!address) return 0;`
isNull(address) == address = 0

\* mutant: the statistic is left as it was
countAllocation_skipped == allocations

\* ++stats::allocations
countAllocation == allocations + 1

\* mutant: the counter is read without being advanced
nextSegment_stuck == Max(lastSegment, 1)

\* ++lastSegment
nextSegment == lastSegment + 1

\* MemoryManager::allocate(ref<Expr> size, isLocal, isGlobal, allocSite, alignment)
allocate(size, alignment) ==
  /\ pc = "running"
  /\ lastSegment < MaxSegments
  /\ \E o \in allocateOutcomes(size, alignment) :
     LET r == referenceRun(size, alignment) IN
       /\ refSlot' = r.slot
       /\ nextFreeSlot' = o.nextFreeSlot
       /\ heap' = o.heap
       /\ carved' = IF isNull(o.address) THEN carved ELSE carved \o o.carve
       /\ IF isNull(o.address)
            THEN /\ last' = [op |-> "allocate", result |-> 0, address |-> 0,
                             size |-> size, alignment |-> alignment,
                             tracked |-> FALSE,
                             reference |-> r.address]
                 /\ UNCHANGED <<lastSegment, objects, allocations, issued,
                                created>>
            ELSE /\ allocations' = countAllocation
                 /\ lastSegment' = nextSegment
                 /\ objects' = objects \cup
                      {MemoryObject(nextSegment, o.address, size, FALSE,
                                    o.backing)}
                 /\ created' = created \cup
                      {identity(MemoryObject(nextSegment, o.address, size,
                                             FALSE, o.backing))}
                 /\ issued' = Append(issued, nextSegment)
                 /\ last' = [op |-> "allocate", result |-> nextSegment,
                             address |-> o.address, size |-> size,
                             alignment |-> alignment, tracked |-> FALSE,
                             reference |-> r.address]
  /\ UNCHANGED <<opt, deterministicSpace, spaceSize, freedObjs, released,
                 arenaReleased, pc>>

\* the requests the interpreter makes: sizes and power-of-two alignments,
\* requests with an alignment that is no power of two, and one request with
\* the largest power-of-two alignment a machine word holds
SizeInputs == {0, SmallSize, spaceSize, Word - 1}
AlignmentInputs == {1, 2 * PageSize}
InvalidAlignmentInputs == {0, 3}
HugeAlignment == Word \div 2

\* allocate(uint64_t size, ...) wraps the size at the pointer width; the other
\* overload is also called with a symbolic size
Allocate ==
  \/ \E alignment \in AlignmentInputs :
       \/ \E size \in SizeInputs :
            allocate(ConstantExpr(size % PointerMod), alignment)
       \/ allocate(SymbolicExpr, alignment)
  \/ \E alignment \in InvalidAlignmentInputs :
       allocate(ConstantExpr(SmallSize % PointerMod), alignment)
  \/ allocate(ConstantExpr(SmallSize % PointerMod), HugeAlignment)

\* ------------------------------------------------------------- allocateFixed
\* the debug-build scan: `unsigned moSize` is the existing record's size, used
\* for both ranges; symbolic-size records are skipped
overlaps(mo, address) ==
  /\ mo.size.isConst
  /\ LET moSize == mo.size.value % UnsignedMod
     IN /\ (address + moSize) % Word > mo.address
        /\ address < (mo.address + moSize) % Word

\* mutant: the scan also meets the records markFreed has handed back
scanned_stale == objects \cup freedObjs

\* `for (objects_ty::iterator it = objects.begin(); it != objects.end(); ++it)`
scanned == objects

\* MemoryManager::allocateFixed(address, size, allocSite)
allocateFixed(address, size) ==
  /\ pc = "running"
  /\ lastSegment < MaxSegments
  /\ IF ~opt.NDEBUG /\ \E mo \in scanned : overlaps(mo, address)
       THEN \* klee_error("Trying to allocate an overlapping object")
            /\ pc' = "fatal"
            /\ last' = [op |-> "allocateFixed", result |-> 0, address |-> address,
                        size |-> ConstantExpr(size % PointerMod), alignment |-> 0,
                        tracked |-> FALSE, reference |-> 0]
            /\ UNCHANGED <<lastSegment, objects, allocations, issued, created>>
       ELSE /\ allocations' = countAllocation
            /\ lastSegment' = nextSegment
            /\ objects' = objects \cup
                 {MemoryObject(nextSegment, address,
                               ConstantExpr(size % PointerMod), TRUE, "fixed")}
            /\ created' = created \cup
                 {identity(MemoryObject(nextSegment, address,
                                        ConstantExpr(size % PointerMod), TRUE,
                                        "fixed"))}
            /\ issued' = Append(issued, nextSegment)
            /\ last' = [op |-> "allocateFixed", result |-> nextSegment,
                        address |-> address,
                        size |-> ConstantExpr(size % PointerMod), alignment |-> 0,
                        tracked |-> FALSE, reference |-> 0]
            /\ pc' = pc
  /\ UNCHANGED <<opt, deterministicSpace, spaceSize, nextFreeSlot, heap,
                 freedObjs, released, arenaReleased, carved, refSlot>>

FixedAddressInputs == {0, FixedBase - (FixedLen \div 2), FixedBase}
FixedSizeInputs == {FixedLen \div 2, FixedLen}

AllocateFixed ==
  \E address \in FixedAddressInputs, size \in FixedSizeInputs :
    allocateFixed(address, size)

\* -------------------------------------------------------------------- release
\* mutant: the two release calls are exchanged
free_address_swapped(mo, low_address) ==
  [call |-> IF low_address THEN "free" ELSE "munmap", segment |-> mo.segment,
   address |-> mo.address, heap |-> {b \in heap : b.address # mo.address}]

\* free_address(mo, low_address): the call made and the host heap it leaves
free_address(mo, low_address) ==
  LET alloc_size == IF mo.size.isConst THEN mo.size.value ELSE 1
  IN IF low_address
       THEN [call |-> "munmap", segment |-> mo.segment, address |-> mo.address,
             heap |-> {b \in heap : alloc_size = 0
                                    \/ b.address + b.len <= mo.address
                                    \/ mo.address + alloc_size <= b.address}]
       ELSE [call |-> "free", segment |-> mo.segment, address |-> mo.address,
             heap |-> {b \in heap : b.address # mo.address}]

\* the release both markFreed and the destructor make for a tracked record;
\* `released` keeps every release call made, `nth` counting those of one record
releaseBacking(mo) ==
  IF ~mo.isFixed /\ ~opt.DeterministicAllocation
    THEN LET r == free_address(mo, opt.pointerBitWidth = 32)
             before == {e \in released : e.segment = mo.segment}
         IN /\ released' = released \cup
                 {[call |-> r.call, segment |-> r.segment, address |-> r.address,
                   backing |-> mo.backing, nth |-> Cardinality(before) + 1]}
            /\ heap' = r.heap
    ELSE UNCHANGED <<released, heap>>

\* mutant: the registry is cleared
erase_all(set, mo) == {}

\* mutant: the record stays in the registry
erase_none(set, mo) == set

\* objects.erase(mo)
erase(set, mo) == set \ {mo}

\* mutant: the membership test is dropped
isTracked_always(mo) == TRUE

\* objects.find(mo) != objects.end()
isTracked(mo) == mo \in objects

\* MemoryManager::markFreed(mo)
markFreed(mo) ==
  /\ pc = "running"
  /\ IF isTracked(mo)
       THEN /\ releaseBacking(mo)
            /\ objects' = erase(objects, mo)
            /\ freedObjs' = freedObjs \cup {mo}
       ELSE UNCHANGED <<released, heap, objects, freedObjs>>
  /\ last' = [NoCall EXCEPT !.op = "markFreed", !.tracked = mo \in objects]
  /\ UNCHANGED <<opt, deterministicSpace, spaceSize, nextFreeSlot, lastSegment,
                 allocations, arenaReleased, issued, carved, created, refSlot, pc>>

MarkFreed == \E mo \in objects \cup freedObjs \cup {ForeignObject} : markFreed(mo)

\* ----------------------------------------------------------------- destructor
\* once the destructor runs no caller frees a record any more: the records
\* markFreed handed back (freedObjs) are forgotten
\* one iteration of `while (!objects.empty())`: *objects.begin() is the record
\* at the lowest pointer value, which may be any of them
DestroyObject ==
  /\ pc \in {"running", "destroying"}
  /\ \E mo \in objects :
       /\ releaseBacking(mo)
       /\ objects' = erase(objects, mo)
  /\ pc' = "destroying"
  /\ last' = InDestructor
  /\ freedObjs' = {}
  /\ UNCHANGED <<opt, deterministicSpace, spaceSize, nextFreeSlot, lastSegment,
                 allocations, arenaReleased, issued, carved, created, refSlot>>

\* mutant: the arena is unmapped before the loop over the records
DestroyArena_early ==
  /\ pc \in {"running", "destroying"}
  /\ arenaReleased' = opt.DeterministicAllocation
  /\ pc' = "done"
  /\ last' = InDestructor
  /\ freedObjs' = {}
  /\ UNCHANGED <<opt, deterministicSpace, spaceSize, nextFreeSlot, lastSegment,
                 objects, allocations, heap, released, issued, carved, created,
                 refSlot>>

\* the loop has ended: munmap(deterministicSpace, spaceSize) in deterministic mode
DestroyArena ==
  /\ pc \in {"running", "destroying"}
  /\ objects = {}
  /\ arenaReleased' = opt.DeterministicAllocation
  /\ pc' = "done"
  /\ last' = InDestructor
  /\ freedObjs' = {}
  /\ UNCHANGED <<opt, deterministicSpace, spaceSize, nextFreeSlot, lastSegment,
                 objects, allocations, heap, released, issued, carved, created,
                 refSlot>>

\* MemoryManager::getUsedDeterministicSize
getUsedDeterministicSize == (nextFreeSlot - deterministicSpace) % Word

Next ==
  \/ Allocate
  \/ AllocateFixed
  \/ MarkFreed
  \/ DestroyObject
  \/ DestroyArena

Spec == Init /\ [][Next]_vars

\* the destructor is one sequential call: once it has begun it takes its next
\* step, a loop iteration or the code after the loop
DestructorRuns == pc = "destroying" /\ (DestroyObject \/ DestroyArena)

FairSpec == Spec /\ WF_vars(DestructorRuns)

\* ===================================================================== claims
\* [b, b + s) and [a, a + n) share an address
Intersects(b, s, a, n) == s > 0 /\ n > 0 /\ b < a + n /\ a < b + s

LiveConcrete == {mo \in objects : ~mo.isFixed /\ mo.size.isConst}

\* C1: in deterministic mode any two distinct live records that are non-fixed
\* and of concrete size have disjoint ranges [address, address + size)
C1_NonOverlap ==
  opt.DeterministicAllocation =>
    \A a, b \in LiveConcrete :
      a # b => ~Intersects(a.address, a.size.value, b.address, b.size.value)

\* C2: the identities issued are pairwise distinct and strictly increasing in
\* issuance order, every record carries an issued identity of its own, and no
\* live record has the identity of a freed one
C2_IdentitiesIncrease ==
  /\ \A i, j \in DOMAIN issued : i < j => issued[i] < issued[j]
  /\ \A a, b \in objects \cup freedObjs : a.segment = b.segment => a = b
  /\ \A a \in objects \cup freedObjs : \E i \in DOMAIN issued : issued[i] = a.segment
  /\ Len(issued) = lastSegment

\* C2 witness: a record was freed and identities were issued after its own
C2_Witness ==
  /\ Len(issued) >= 2
  /\ \E f \in freedObjs, a \in objects : f.segment < a.segment

\* C3: in deterministic mode the cursor never moves down and never exceeds
\* origin + arenaSize
C3_CursorMonotoneBounded ==
  [][opt.DeterministicAllocation =>
       /\ nextFreeSlot' >= nextFreeSlot
       /\ nextFreeSlot' <= deterministicSpace + spaceSize]_vars

\* C4: allocateFixed(address, size) is fatal exactly when some live record of
\* concrete size intersects [address, address + size)
C4_FatalIffOverlap ==
  [][last'.op = "allocateFixed" =>
       (pc' = "fatal" <=>
          \E mo \in objects :
            /\ mo.size.isConst
            /\ Intersects(mo.address, mo.size.value,
                          last'.address, last'.size.value))]_vars

\* C5: in deterministic mode each carved region starts at or above the end
\* of the region carved before it plus the red zone
C5_RedZoneSeparation ==
  opt.DeterministicAllocation =>
    \A i \in DOMAIN carved :
      i > 1 => carved[i].address >=
                 carved[i - 1].address + carved[i - 1].alloc_size
                   + opt.RedZoneSpace

\* C6 as written: a successful allocate with a power-of-two alignment returns
\* a multiple of it, and any other alignment fails
C6_AlignedEverywhere ==
  last.op = "allocate" =>
    IF isPowerOf2_64(last.alignment)
      THEN last.result # 0 => last.address % last.alignment = 0
      ELSE last.result = 0

\* the alignment an address obtained for `alignment` is sure to have: the
\* low mapping of the 32-bit path is page-aligned whatever was asked
GuaranteedAlignment(alignment) ==
  IF ~opt.DeterministicAllocation /\ opt.pointerBitWidth = 32
       /\ alignment > PageSize
    THEN PageSize
    ELSE alignment

\* C6: a successful allocate with a power-of-two alignment a returns a
\* multiple of a in deterministic mode and on the malloc / posix_memalign
\* path, and a page-aligned address on the 32-bit mapping path; an alignment
\* that is no power of two fails
C6_Aligned ==
  last.op = "allocate" =>
    IF isPowerOf2_64(last.alignment)
      THEN last.result # 0 =>
             last.address % GuaranteedAlignment(last.alignment) = 0
      ELSE last.result = 0

\* C6 witness: an allocate with an alignment above one was served
C6_Witness ==
  /\ last.op = "allocate"
  /\ last.result # 0
  /\ last.alignment > 1
  /\ last.address % last.alignment = 0

\* C7: an allocate that returns failure leaves the registry, the identity
\* counter, the allocation counter and the cursor as they were
C7_FailureChangesNothing ==
  [][last'.op = "allocate" /\ last'.result = 0 =>
       UNCHANGED <<objects, lastSegment, allocations, nextFreeSlot>>]_vars

\* C8: markFreed of a record that is not tracked raises no error, releases
\* nothing and leaves the registry, the counters and the cursor unchanged
C8_UntrackedFreeIsNoOp ==
  [][last'.op = "markFreed" /\ ~last'.tracked =>
       UNCHANGED <<objects, lastSegment, allocations, nextFreeSlot, released,
                   heap, arenaReleased, pc>>]_vars

\* C8 witness: a freed record exists and the last call was a free of a record
\* that was not tracked
C8_Witness ==
  /\ last.op = "markFreed"
  /\ ~last.tracked
  /\ freedObjs # {}
  /\ released # {}

\* C9 as written: no record of the registry has address zero
C9_NoNullAddress == \A mo \in objects : mo.address # 0

\* C9: no record created by allocate has address zero; a fixed record has the
\* address its caller passed
C9_NoNullAllocated == \A mo \in objects : ~mo.isFixed => mo.address # 0

\* C9 witness: allocate has returned failure for want of an address while the
\* registry holds a record it made
C9_Witness ==
  /\ last.op = "allocate"
  /\ last.result = 0
  /\ isPowerOf2_64(last.alignment)
  /\ \E mo \in objects : ~mo.isFixed

\* C10: every release uses the facility that produced the address; fixed and
\* arena-carved records are never released
C10_ReleaseMatchesBacking ==
  \A e \in released :
    /\ e.call = "munmap" <=> e.backing = "mmap"
    /\ e.call = "free" <=> e.backing \in {"malloc", "posix_memalign"}
    /\ e.backing = "mmap" <=> opt.pointerBitWidth = 32
    /\ ~opt.DeterministicAllocation

\* C10 witness: backing storage was released and a fixed record went through
\* free as well
C10_Witness ==
  /\ released # {}
  /\ \E mo \in freedObjs : mo.isFixed

\* C11: the allocation counter equals the number of allocate and allocateFixed
\* calls that returned a record (the length of the history of identities), so
\* no failed call and no free changes it, and it equals the last identity
\* issued
C11_CounterCountsSuccesses ==
  /\ allocations = Len(issued)
  /\ allocations = lastSegment
  /\ issued # <<>> => allocations = issued[Len(issued)]

\* a record was returned and freed, and a later allocate failed
C11_Witness ==
  /\ allocations >= 1
  /\ freedObjs # {}
  /\ last.op = "allocate" /\ last.result = 0

NativeBacked(mo) == mo.backing \in {"malloc", "mmap", "posix_memalign"}

\* C12: a destructor that has begun completes; each of its iterations removes
\* one live record and makes the release free would make (one release call at
\* the record's address for a non-fixed native-backed record, none otherwise);
\* it ends with the registry empty; the arena is unmapped only by the completed
\* destructor, with no record left, and only in deterministic mode
C12_DestructorCompletes ==
  /\ (pc = "destroying") ~> (pc = "done")
  /\ [](pc = "done" => /\ objects = {}
                       /\ arenaReleased = opt.DeterministicAllocation)
  /\ [](arenaReleased => /\ pc = "done"
                         /\ objects = {}
                         /\ opt.DeterministicAllocation)
  /\ [][pc' = "destroying" =>
         \E mo \in objects :
           /\ objects' = objects \ {mo}
           /\ IF ~mo.isFixed /\ NativeBacked(mo)
                THEN /\ Cardinality(released' \ released) = 1
                     /\ \A e \in released' \ released :
                          /\ e.segment = mo.segment
                          /\ e.address = mo.address
                     /\ heap' \subseteq heap
                     /\ \A b \in heap' : b.address # mo.address
                ELSE UNCHANGED <<released, heap>>
      ]_vars

\* the destructor has completed for a native manager that held a fixed record
\* and released the storage of another
C12_Witness ==
  /\ pc = "done"
  /\ released # {}
  /\ \E c \in created : c.isFixed

CarvingStep ==
  /\ opt.DeterministicAllocation
  /\ last'.op = "allocate"
  /\ isPowerOf2_64(last'.alignment)
  /\ ~(opt.NullOnZeroMalloc /\ last'.size.isConst /\ last'.size.value = 0)

\* the size carved for a request: max(size, 1), a symbolic size counting as 0
CarvedSize(size) == Max(IF size.isConst THEN size.value ELSE 0, 1)

\* C14: a deterministic allocate with a valid alignment fails exactly when the
\* computed address plus max(size, 1) exceeds origin + arenaSize; a region that
\* ends at or below origin + arenaSize, also exactly at it, is served
C14_ExhaustionIffBeyondEnd ==
  [][CarvingStep =>
       LET computedAddress ==
             alignTo((nextFreeSlot + last'.alignment - 1) % Word,
                     last'.alignment)
       IN (last'.result = 0) <=>
            (computedAddress + CarvedSize(last'.size)
               > deterministicSpace + spaceSize)]_vars

\* C15: the address a deterministic allocate serves is the smallest multiple of
\* the alignment at or above the cursor; with the cursor already a multiple the
\* region starts at the cursor
C15_SmallestAlignedAddress ==
  [][(CarvingStep /\ last'.result # 0) =>
       LET a == last'.alignment
       IN last'.address = ((nextFreeSlot + a - 1) \div a) * a]_vars

ZeroOrSymbolic(size) == ~size.isConst \/ size.value = 0

\* C16: in deterministic mode with the zero-size policy not set to fail, a
\* served request of concrete size zero or of symbolic size leaves the cursor
\* at servedAddress + 1 + redZone, and the record has an address no other
\* carved record has
C16_OneByteRegions ==
  (opt.DeterministicAllocation /\ ~opt.NullOnZeroMalloc) =>
    /\ (last.op = "allocate" /\ last.result # 0 /\ ZeroOrSymbolic(last.size))
         => nextFreeSlot = last.address + 1 + opt.RedZoneSpace
    /\ \A mo \in objects \cup freedObjs :
         (mo.backing = "arena" /\ ZeroOrSymbolic(mo.size)) =>
           Cardinality({i \in 1..Len(carved) :
                          carved[i].address = mo.address}) = 1

\* C17: a free of a tracked record removes that record and no other from the
\* registry and leaves the identity counter, the allocation counter and the
\* cursor as they were; no free, tracked or not, reduces the used
\* deterministic space
C17_FreeFrame ==
  [][last'.op = "markFreed" =>
       /\ last'.tracked =>
            \E mo \in objects :
              /\ objects' = objects \ {mo}
              /\ freedObjs' = freedObjs \cup {mo}
              /\ UNCHANGED <<lastSegment, allocations, nextFreeSlot>>
       /\ getUsedDeterministicSize' >= getUsedDeterministicSize]_vars

\* a tracked record was freed while another record stays live, in
\* deterministic mode with part of the arena used
C17_Witness ==
  /\ last.op = "markFreed" /\ last.tracked
  /\ objects # {} /\ freedObjs # {}
  /\ opt.DeterministicAllocation
  /\ getUsedDeterministicSize > 0

\* C18: a release call is made only for a non-fixed native-backed record and
\* at most once for each; when the destructor has completed, exactly one
\* release call has been made for every such record ever returned
C18_ReleasedOnce ==
  /\ \A e \in released :
       /\ e.nth = 1
       /\ \E c \in created :
            c.segment = e.segment /\ ~c.isFixed /\ NativeBacked(c)
  /\ pc = "done" =>
       \A c \in created :
         (~c.isFixed /\ NativeBacked(c)) =>
           Cardinality({e \in released : e.segment = c.segment}) = 1

\* the destructor has completed after two native records were returned
C18_Witness ==
  /\ pc = "done"
  /\ Cardinality(released) >= 2

\* C19: while the manager serves calls, the registry holds exactly the records
\* returned by a successful allocate or allocateFixed and not passed to free
\* since; an allocateFixed rejected as overlapping overlaps a record of the
\* registry, never only a freed one
C19_RegistryIsReturnedMinusFreed ==
  pc \in {"running", "fatal"} =>
    /\ {identity(mo) : mo \in objects}
         = created \ {identity(mo) : mo \in freedObjs}
    /\ objects \cap freedObjs = {}
    /\ Cardinality(objects) = Cardinality({identity(mo) : mo \in objects})
    /\ pc = "fatal" =>
         \E mo \in objects :
           /\ identity(mo) \in created
           /\ mo \notin freedObjs
           /\ overlaps(mo, last.address)

\* a fixed record is registered at an address a freed record would overlap
C19_Witness ==
  /\ pc = "running"
  /\ last.op = "allocateFixed" /\ last.result # 0
  /\ \E mo \in freedObjs : overlaps(mo, last.address)
====
